---------------------------- MODULE Spec2Model ----------------------------
(***************************************************************************)
(* A model of creme's KNNRegressor (src/creme/neighbors/knn_regressor.py): *)
(* the bounded sliding window of the last max_window_size samples, the     *)
(* k-nearest-neighbour query over it and the three aggregation methods,   *)
(* and of compose, the preprocessing steps and TFIDFVectorizer             *)
(* (src/creme/feature_extraction/vectorize.py).                            *)
(*                                                                         *)
(* Specifications.  Spec: one engine, each call one step.  SpecWide: the   *)
(* same on a stream whose inputs carry different features.  SpecThreads:   *)
(* learn_one and predict_one in two threads.  SpecTfidf: a TFIDFVectorizer.*)
(* SpecCompose: calls of composed callables.                               *)
(*                                                                         *)
(* Numbers.  Feature values are held in half units: the model value v      *)
(* stands for the feature value v / 2 (so 7 is 3.5).  A Minkowski distance *)
(* scales with its arguments, so distances are in half units too; the mean *)
(* and the median do not read distances and the weighted mean only reads   *)
(* ratios of distances, so predictions are not affected by the unit.       *)
(* numpy's float64 results are modelled as exact reduced fractions, plus   *)
(* the IEEE values nan and inf; rounding is not modelled.                  *)
(***************************************************************************)
EXTENDS Integers, Sequences, FiniteSets

\* ------------------------------------------------------------------ bounds

\* The longest stream of learn_one calls that is explored.
MaxLearns == 4
\* The largest max_window_size (and n_neighbors) and the largest leaf_size a
\* constructor is given.
MaxWindow == 3
MaxLeaf == 2
\* The longest stream of TFIDFVectorizer.fit_one calls that is explored.
MaxFits == 3
\* The largest number of functions compose is given.
MaxFunctions == 3

\* ------------------------------------------------------- float64 as fractions

Abs(i) == IF i < 0 THEN -i ELSE i

RECURSIVE GCD(_, _)
GCD(a, b) == IF b = 0 THEN a ELSE GCD(b, a % b)

\* The float n / d (d # 0), as a reduced fraction with a positive denominator.
Num(n, d) ==
    LET s == IF d < 0 THEN -1 ELSE 1
        g == GCD(Abs(n), Abs(d))
    IN [kind |-> "num", num |-> (s * n) \div g, den |-> (s * d) \div g]

Flt(i) == Num(i, 1)
NaN == [kind |-> "nan", num |-> 0, den |-> 0]
\* +inf (sign 1) and -inf (sign -1)
Inf(sign) == [kind |-> "inf", num |-> sign, den |-> 0]
\* Python's None, the value predict_one returns without a prediction
None == [kind |-> "none", num |-> 0, den |-> 0]

Sign(a) == IF a.num < 0 THEN -1 ELSE IF a.num > 0 THEN 1 ELSE 0

\* float64 addition
FAdd(a, b) ==
    IF a.kind = "nan" \/ b.kind = "nan" THEN NaN
    ELSE IF a.kind = "inf" /\ b.kind = "inf"
         THEN (IF a.num = b.num THEN a ELSE NaN)
    ELSE IF a.kind = "inf" THEN a
    ELSE IF b.kind = "inf" THEN b
    ELSE Num(a.num * b.den + b.num * a.den, a.den * b.den)

\* float64 multiplication
FMul(a, b) ==
    IF a.kind = "nan" \/ b.kind = "nan" THEN NaN
    ELSE IF a.kind = "inf" \/ b.kind = "inf"
         THEN (IF Sign(a) * Sign(b) = 0 THEN NaN ELSE Inf(Sign(a) * Sign(b)))
    ELSE Num(a.num * b.num, a.den * b.den)

FNeg(a) == FMul(Flt(-1), a)
FSub(a, b) == FAdd(a, FNeg(b))

\* numpy float64 division: 0/0 is nan and x/0 is +-inf (a warning, no exception)
FDiv(a, b) ==
    IF a.kind = "nan" \/ b.kind = "nan" THEN NaN
    ELSE IF a.kind = "inf"
         THEN (IF b.kind = "inf" THEN NaN
               ELSE Inf(IF Sign(b) < 0 THEN -a.num ELSE a.num))
    ELSE IF b.kind = "inf" THEN Flt(0)
    ELSE IF b.num = 0
         THEN (IF a.num = 0 THEN NaN ELSE Inf(Sign(a)))
    ELSE Num(a.num * b.den, a.den * b.num)

\* ndarray.sum() / Python's sum over a sequence of floats
RECURSIVE FSum(_)
FSum(s) == IF s = <<>> THEN Flt(0) ELSE FAdd(Head(s), FSum(Tail(s)))

RECURSIVE Pow(_, _)
Pow(b, e) == IF e = 0 THEN 1 ELSE b * Pow(b, e - 1)

\* ------------------------------------------------------------ configuration

\* KNNRegressor._MEAN, _MEDIAN, _WEIGHTED_MEAN
MEAN == "mean"
MEDIAN == "median"
WEIGHTED_MEAN == "weighted_mean"
AggregationMethods == {MEAN, MEDIAN, WEIGHTED_MEAN}

\* The constructor arguments that are tried: the valid ones, and for each
\* argument one value that is not valid.
CtorArgs ==
    [n_neighbors : 0 .. MaxWindow,
     max_window_size : 0 .. MaxWindow,
     leaf_size : 0 .. MaxLeaf,
     p : 0 .. 2,
     aggregation_method : AggregationMethods \cup {"mode"}]

NoArgs == [n_neighbors |-> 0, max_window_size |-> 0, leaf_size |-> 0, p |-> 0,
           aggregation_method |-> ""]

\* ------------------------------------------------------------------ inputs

\* The feature names of the samples and queries of the main stream, in the
\* order an input lists them.
FeatureOrder == <<"x1">>
FeatureNames == {FeatureOrder[i] : i \in 1 .. Len(FeatureOrder)}

Dict(v) == [f \in FeatureNames |-> v]

\* The labelled samples (x, y) of the stream, x in half units: ([1], 10),
\* ([2], 20), ([3], 30) and ([4], 40).
Samples ==
    {[x |-> Dict(2), y |-> 10], [x |-> Dict(4), y |-> 20],
     [x |-> Dict(6), y |-> 30], [x |-> Dict(8), y |-> 40]}

\* The queries, in half units: [3] and [3.5].
Queries == {Dict(6), Dict(7)}

\* The feature names of a stream whose inputs do not all carry the same
\* features, in the order an input lists those it carries.
WideOrder == <<"x1", "x2">>

\* The dict {x1: a}, {x2: b} and {x1: a, x2: b}
OnlyX1(a) == [f \in {"x1"} |-> a]
OnlyX2(b) == [f \in {"x2"} |-> b]
Both(a, b) == [f \in {"x1", "x2"} |-> IF f = "x1" THEN a ELSE b]

\* The samples and queries of that stream, in half units.
WideSamples ==
    {[x |-> OnlyX1(2), y |-> 10], [x |-> Both(4, 2), y |-> 20],
     [x |-> OnlyX2(4), y |-> 30]}
WideQueries == {OnlyX1(4), Both(2, 2)}

\* The constructor arguments tried on that stream: the Manhattan distance,
\* for which the distances of its vectors are whole half units.
WideCtorArgs ==
    [n_neighbors : 1 .. 2,
     max_window_size : 2 .. MaxWindow,
     leaf_size : 1 .. MaxLeaf,
     p : {1},
     aggregation_method : {MEAN}]

\* -------------------------------------------------------------------- state

VARIABLES
    status,         \* "new", then "ready" (constructed) or "failed" (__init__ raised)
    error,          \* the exception __init__ raised, "" if none
    ctor_args,      \* the arguments __init__ was called with
    cfg,            \* self.n_neighbors, .max_window_size, .leaf_size, .p, .aggregation_method
    data_window,    \* self.data_window: the entries [x, y, seq], oldest first
    registry,       \* the feature names dict2numpy has registered, in order
    n_learned,      \* the number of learn_one calls made
    twin_window,    \* the window of a second engine of the same configuration,
                    \* which is given the same learn_one calls and no predict_one
    last_op,        \* the last call on the engine: "none", "learn" or "predict"
    last_x,         \* the x of that call
    last_y,         \* the y of that call (0 for a predict_one)
    out,            \* what that call returned, and predict_one's locals
    inflight,       \* the predict_one that a second thread is in the middle of:
                    \* its x and the dists[0] and neighbor_idx[0] it obtained, and
                    \* the window they were obtained from
    tfidf,          \* a TFIDFVectorizer: its parameters, self.tfs, self.dfs, self.n
    fit_docs,       \* the texts of the fit_one calls made on it, in order
    tf_out,         \* the last call on it: its x, and what it returned or raised
    composed        \* the last call of a composed callable: the functions, the
                    \* argument and the result

\* The state of the vectorizer and of the composed callable.
text_vars == <<tfidf, fit_docs, tf_out, composed>>

vars == <<status, error, ctor_args, cfg, data_window, registry, n_learned,
          twin_window, last_op, last_x, last_y, out, inflight, tfidf, fit_docs,
          tf_out, composed>>

\* The return value of the last call; predict_one's dists[0], neighbor_idx[0]
\* (0-based, as in the code) and neighbor_vals.
ret == out.ret
dists == out.dists
neighbor_idx == out.neighbor_idx
neighbor_vals == out.neighbor_vals

\* learn_one returns self
Self == [kind |-> "self", num |-> 0, den |-> 0]
Returned(r) == [ret |-> r, dists |-> <<>>, neighbor_idx |-> <<>>, neighbor_vals |-> <<>>]
NoX == [f \in FeatureNames |-> 0]
\* No predict_one is in the middle of its run.
NoFlight == [active |-> FALSE, x |-> NoX, dists |-> <<>>, idx |-> <<>>,
             window |-> <<>>]

\* --------------------------------------------------------------- components

\* The names registered once the names of the dict x are: those of x that are
\* new are appended, in the order x lists them.
register(reg, x) ==
    LET Known(f) == \E i \in 1 .. Len(reg) : reg[i] = f
        New(f) == f \in DOMAIN x /\ ~Known(f)
    IN reg \o SelectSeq(WideOrder, New)

\* creme.utils.dict2numpy: the dict as a vector over the registered names (its
\* own names registered first), 0 for a name the dict does not carry.
dict2numpy(reg, x) ==
    LET names == register(reg, x)
    IN [i \in 1 .. Len(names) |-> IF names[i] \in DOMAIN x THEN x[names[i]] ELSE 0]

\* The insertion sequence number the next entry of a window gets.
next_seq(window) == IF window = <<>> THEN 1 ELSE window[Len(window)].seq + 1

\* data_window.add_one(x_arr, y): append, and drop the oldest entry when the
\* window is over capacity.
add_one(window, capacity, x_arr, y) ==
    LET grown == Append(window, [x |-> x_arr, y |-> y, seq |-> next_seq(window)])
    IN IF Len(grown) > capacity THEN Tail(grown) ELSE grown

\* data_window.size, .features_buffer, .targets_buffer
size(window) == Len(window)
features_buffer(window) == [i \in 1 .. Len(window) |-> window[i].x]
targets_buffer(window) == [i \in 1 .. Len(window) |-> window[i].y]

\* The Minkowski distance of order p, (sum_i |a_i - b_i|^p)^(1/p); the root is
\* the exact integer root, which exists for the vectors of this model (it is
\* looked for up to the distance of order 1, which no other order exceeds).
RECURSIVE PowSum(_, _, _, _)
PowSum(a, b, p, i) ==
    IF i > Len(a) THEN 0 ELSE Pow(Abs(a[i] - b[i]), p) + PowSum(a, b, p, i + 1)

Minkowski(a, b, p) ==
    LET s == PowSum(a, b, p, 1)
    IN CHOOSE r \in 0 .. PowSum(a, b, 1, 1) : Pow(r, p) = s

\* ------------------------------------------------------------ spatial index

\* ties broken towards the entry inserted last
Closer_latest(c1, c2) ==
    c1.dist < c2.dist \/ (c1.dist = c2.dist /\ c1.pos > c2.pos)

\* A candidate neighbour: the entry at position pos of the window (1-based;
\* the window is in insertion order, so a lower position is a lower insertion
\* sequence number) at distance dist.
\* Candidates are ordered by distance, and at equal distance by position.
Closer(c1, c2) ==
    c1.dist < c2.dist \/ (c1.dist = c2.dist /\ c1.pos < c2.pos)

\* The k best candidates so far (sorted by Closer), offered one more.
Offer(best, c, k) ==
    LET Before(b) == Closer(b, c)
        After(b) == ~Closer(b, c)
        all == SelectSeq(best, Before) \o <<c>> \o SelectSeq(best, After)
    IN IF Len(all) > k THEN SubSeq(all, 1, k) ELSE all

\* A leaf of the tree: the entries of the partition are scanned directly.
RECURSIVE Scan(_, _, _, _, _, _)
Scan(X, part, q, k, p, best) ==
    IF part = <<>> THEN best
    ELSE Scan(X, Tail(part), q, k, p,
              Offer(best, [dist |-> Minkowski(X[Head(part)], q, p),
                           pos |-> Head(part)], k))

SetMin(S) == CHOOSE m \in S : \A e \in S : m <= e
SetMax(S) == CHOOSE m \in S : \A e \in S : m >= e

Coords(X, part, d) == {X[part[i]][d] : i \in 1 .. Len(part)}
Spread(X, part, d) == SetMax(Coords(X, part, d)) - SetMin(Coords(X, part, d))

\* The dimension a partition is split along: the one of largest spread.
SplitDim(X, part, q) ==
    CHOOSE d \in 1 .. Len(q) :
        \A e \in 1 .. Len(q) :
            \/ Spread(X, part, d) > Spread(X, part, e)
            \/ Spread(X, part, d) = Spread(X, part, e) /\ d <= e

\* The k nearest entries of a partition of the window (part: the positions in
\* it), merged into best.  A partition of at most leaf_size entries, or one
\* that cannot be split, is scanned; a larger one is split at the midpoint of
\* its extent, the half holding the query is searched first, and the other
\* half only if it can hold an entry as close as the k-th best found.
RECURSIVE Search(_, _, _, _, _, _, _)
Search(X, part, q, k, p, leaf_size, best) ==
    IF Len(part) <= leaf_size THEN Scan(X, part, q, k, p, best)
    ELSE
      LET d == SplitDim(X, part, q)
          lo == SetMin(Coords(X, part, d))
          hi == SetMax(Coords(X, part, d))
          qleft == 2 * q[d] < lo + hi
          WithQuery(i) == (2 * X[i][d] < lo + hi) = qleft
          Opposite(i) == ~WithQuery(i)
          near == SelectSeq(part, WithQuery)
          far == SelectSeq(part, Opposite)
          b1 == Search(X, near, q, k, p, leaf_size, best)
      IN IF lo = hi THEN Scan(X, part, q, k, p, best)
         ELSE IF Len(b1) < k \/ Abs(2 * q[d] - (lo + hi)) <= 2 * b1[Len(b1)].dist
              THEN Search(X, far, q, k, p, leaf_size, b1)
              ELSE b1

\* The vectors of X and the query q are of one dimensionality, so that the
\* distances between them are defined.
Comparable(X, q) == \A i \in 1 .. Len(X) : Len(X[i]) = Len(q)

\* BaseNeighbors._get_neighbors(x_arr): a tree over features_buffer, queried
\* for the n_neighbors nearest entries; distances ascending, indices 0-based.
\* Over vectors that are not comparable it raises ValueError.
get_neighbors(window, x_arr, k, p, leaf_size) ==
    LET X == features_buffer(window)
        found == Search(X, [i \in 1 .. Len(X) |-> i], x_arr, k, p, leaf_size, <<>>)
    IN IF ~Comparable(X, x_arr)
       THEN [dists |-> <<>>, idx |-> <<>>, error |-> "ValueError"]
       ELSE [dists |-> [i \in 1 .. Len(found) |-> found[i].dist],
             idx |-> [i \in 1 .. Len(found) |-> found[i].pos - 1],
             error |-> ""]

\* ------------------------------------------------------------- aggregation

Floats(ints) == [i \in 1 .. Len(ints) |-> Flt(ints[i])]

\* np.mean
np_mean(vals) == FDiv(FSum(Floats(vals)), Flt(Len(vals)))

\* np.sort, by insertion
SortInsert(sorted, v) ==
    LET Low(e) == e <= v
        High(e) == e > v
    IN SelectSeq(sorted, Low) \o <<v>> \o SelectSeq(sorted, High)

RECURSIVE np_sort(_)
np_sort(vals) ==
    IF vals = <<>> THEN <<>>
    ELSE SortInsert(np_sort(SubSeq(vals, 1, Len(vals) - 1)), vals[Len(vals)])

\* a median that takes the middle of the values as they come, unsorted
np_median_unsorted(vals) ==
    LET n == Len(vals)
    IN IF n % 2 = 1 THEN Flt(vals[(n + 1) \div 2])
       ELSE np_mean(<<vals[n \div 2], vals[n \div 2 + 1]>>)

\* np.median: the middle value of the sorted values, or the mean of the two
\* middle values when their number is even
np_median(vals) ==
    LET s == np_sort(vals)
        n == Len(s)
    IN IF n % 2 = 1 THEN Flt(s[(n + 1) \div 2])
       ELSE np_mean(<<s[n \div 2], s[n \div 2 + 1]>>)

\* The call ended in the exception e.
Raised(e) == [kind |-> e, num |-> 0, den |-> 0]
ZeroDivisionError == Raised("ZeroDivisionError")

\* np.average(a, weights=w): sum(a * w) / sum(w); raises when sum(w) == 0.0
np_average(vals, weights) ==
    LET scl == FSum(weights)
    IN IF scl = Flt(0) THEN ZeroDivisionError
       ELSE FDiv(FSum([i \in 1 .. Len(vals) |-> FMul(Flt(vals[i]), weights[i])]), scl)

\* the weighted mean with Python floats for numpy's: dist / sum_dist raises
\* ZeroDivisionError when sum_dist is 0.0
weighted_mean_python_floats(ds, vals) ==
    LET sum_dist == FSum(Floats(ds))
        weights == [i \in 1 .. Len(ds) |-> FSub(Flt(1), FDiv(Flt(ds[i]), sum_dist))]
        wsum == FSum(weights)
        normalised == [i \in 1 .. Len(ds) |-> FDiv(weights[i], wsum)]
    IN IF sum_dist = Flt(0) THEN ZeroDivisionError ELSE np_average(vals, normalised)

\* predict_one, the weighted mean branch
weighted_mean(ds, vals) ==
    LET sum_dist == FSum(Floats(ds))
        weights == [i \in 1 .. Len(ds) |-> FSub(Flt(1), FDiv(Flt(ds[i]), sum_dist))]
        wsum == FSum(weights)
        normalised == [i \in 1 .. Len(ds) |-> FDiv(weights[i], wsum)]
    IN np_average(vals, normalised)

\* the aggregation with the mean and median branches swapped
aggregate_swapped(method, ds, vals) ==
    IF method = MEAN THEN np_median(vals)
    ELSE IF method = MEDIAN THEN np_mean(vals)
    ELSE weighted_mean(ds, vals)

\* predict_one, the choice of the aggregation
aggregate(method, ds, vals) ==
    IF method = MEAN THEN np_mean(vals)
    ELSE IF method = MEDIAN THEN np_median(vals)
    ELSE weighted_mean(ds, vals)

\* the guard with <= for <
not_enough_le(window, k) == size(window) <= k

\* predict_one: not enough information available
not_enough(window, k) == size(window) < k

\* the targets read from the wrong end of the buffer
lookup_targets_reversed(target_buffer, idx) ==
    [i \in 1 .. Len(idx) |-> target_buffer[Len(target_buffer) - idx[i]]]

\* predict_one: the targets of the neighbours, target_buffer[index] for each
\* (0-based) index the index returned
lookup_targets(target_buffer, idx) ==
    [i \in 1 .. Len(idx) |-> target_buffer[idx[i] + 1]]

\* predict_one(x) on an engine of configuration c: what it returns, and its
\* locals dists[0], neighbor_idx[0] and neighbor_vals
predict_one(window, c, reg, x) ==
    IF not_enough(window, c.n_neighbors)
    THEN Returned(None)
    ELSE
      LET x_arr == dict2numpy(reg, x)
          nb == get_neighbors(window, x_arr, c.n_neighbors, c.p, c.leaf_size)
          vals == lookup_targets(targets_buffer(window), nb.idx)
      IN IF nb.error # "" THEN Returned(Raised(nb.error))
         ELSE [ret |-> aggregate(c.aggregation_method, nb.dists, vals),
               dists |-> nb.dists, neighbor_idx |-> nb.idx, neighbor_vals |-> vals]

\* predict_one from the read of targets_buffer on: the targets of the
\* neighbours nb are looked up in target_buffer and aggregated.
predict_read(target_buffer, c, nb) ==
    LET vals == lookup_targets(target_buffer, nb.idx)
    IN [ret |-> aggregate(c.aggregation_method, nb.dists, vals),
        dists |-> nb.dists, neighbor_idx |-> nb.idx, neighbor_vals |-> vals]

\* The names registered after predict_one(x): it projects x only when there
\* are entries enough.
predict_registry(window, c, reg, x) ==
    IF not_enough(window, c.n_neighbors) THEN reg ELSE register(reg, x)

\* learn_one with the capacity forgotten: the window only grows
learn_one_unbounded(window, c, reg, x, y) ==
    Append(window, [x |-> dict2numpy(reg, x), y |-> y, seq |-> next_seq(window)])

\* learn_one that refuses a sample once the window is full
learn_one_drop_new(window, c, reg, x, y) ==
    IF size(window) >= c.max_window_size THEN window
    ELSE add_one(window, c.max_window_size, dict2numpy(reg, x), y)

\* learn_one(x, y): the window after the call
learn_one(window, c, reg, x, y) ==
    add_one(window, c.max_window_size, dict2numpy(reg, x), y)

\* ------------------------------------------------------------- construction

\* BaseNeighbors.__init__: the exception it raises, "" if none
base_init(args) ==
    IF args.n_neighbors > 0 /\ args.max_window_size > 0 /\ args.leaf_size > 0
       /\ args.p >= 1
    THEN "" ELSE "ValueError"

\* KNNRegressor.__init__ after super().__init__: the exception it raises, ""
\* if none.  The message of the ValueError is built before it is raised, and
\* building it reads self.f_WEIGHTED_MEAN, an attribute the class does not
\* have, which raises AttributeError.
check_aggregation(method) ==
    IF method \notin AggregationMethods THEN "AttributeError" ELSE ""

\* __init__ without the call of super().__init__: the sizes and p go unchecked
init_error_unchecked(args) == check_aggregation(args.aggregation_method)

init_error(args) ==
    IF base_init(args) # "" THEN base_init(args)
    ELSE check_aggregation(args.aggregation_method)

\* ------------------------------------------------------------------- text

\* A text is a sequence of characters, each named by a string: the letters a,
\* b, e, A and E, the accented letters e' and E', the blank and the full stop.
WordChars == {"a", "b", "e", "A", "E", "e'", "E'"}

\* sklearn's strip_accents_unicode: the accent of each character removed
strip_accents_unicode(text) ==
    [i \in 1 .. Len(text) |->
        IF text[i] = "e'" THEN "e" ELSE IF text[i] = "E'" THEN "E" ELSE text[i]]

\* str.lower
str_lower(text) ==
    [i \in 1 .. Len(text) |->
        IF text[i] = "A" THEN "a" ELSE IF text[i] = "E" THEN "e"
        ELSE IF text[i] = "E'" THEN "e'" ELSE text[i]]

\* The functions that are composed, by name: the f, g and h of the example
\* of compose, and the two steps of the preprocessor.
NumberFunctions == {"x + 1", "x * 2", "-x"}
TextFunctions == {"strip_accents_unicode", "str.lower"}

\* The function named fn, called with x.
ApplyFunction(fn, x) ==
    IF fn = "x + 1" THEN x + 1
    ELSE IF fn = "x * 2" THEN x * 2
    ELSE IF fn = "-x" THEN -x
    ELSE IF fn = "strip_accents_unicode" THEN strip_accents_unicode(x)
    ELSE str_lower(x)

\* A callable is lambda x: x, a named function, or the lambda x: f(g(x)) that
\* compose2(f, g) returns.
Identity == <<"lambda x: x">>
Function(fn) == <<"function", fn>>
compose2(f, g) == <<"lambda x: f(g(x))", f, g>>

\* The callable f called with x.
RECURSIVE Call(_, _)
Call(f, x) ==
    IF f[1] = "lambda x: x" THEN x
    ELSE IF f[1] = "function" THEN ApplyFunction(f[2], x)
    ELSE Call(f[2], Call(f[3], x))

reversed(s) == [i \in 1 .. Len(s) |-> s[Len(s) + 1 - i]]

\* functools.reduce(compose2, iterable, initial)
RECURSIVE reduce_compose2(_, _)
reduce_compose2(iterable, initial) ==
    IF iterable = <<>> THEN initial
    ELSE reduce_compose2(Tail(iterable), compose2(initial, Head(iterable)))

\* compose with the functions folded in the order they are given
compose_unreversed(functions) == reduce_compose2(functions, Identity)

\* compose(*functions)
compose(functions) == reduce_compose2(reversed(functions), Identity)

\* VectorizerMixin.build_preprocessor
build_preprocessor(strip_accents, lowercase) ==
    LET steps == (IF strip_accents THEN <<Function("strip_accents_unicode")>> ELSE <<>>)
                 \o (IF lowercase THEN <<Function("str.lower")>> ELSE <<>>)
    IN IF steps # <<>> THEN compose(steps) ELSE Identity

\* VectorizerMixin.build_tokenizer, the findall of (?u)\b\w\w+\b: the maximal
\* runs of word characters that are two characters or longer, in order.  run
\* is the run that the characters read so far end in.
RECURSIVE findall(_, _)
findall(text, run) ==
    LET found == IF Len(run) >= 2 THEN <<run>> ELSE <<>>
    IN IF text = <<>> THEN found
       ELSE IF Head(text) \in WordChars
            THEN findall(Tail(text), Append(run, Head(text)))
            ELSE found \o findall(Tail(text), <<>>)

tokenizer(text) == findall(text, <<>>)

\* A dict without keys
EmptyDict == [t \in {} |-> 0]

\* collections.Counter(tokens)
Counter(tokens) ==
    [t \in {tokens[i] : i \in 1 .. Len(tokens)} |->
        Cardinality({i \in 1 .. Len(tokens) : tokens[i] = t})]

\* on=None
NoOn == "None"

\* The values fit_one and transform_one are given: the str text, and the dict
\* {'text': text}.  TypeError stands for a call that raised it.
Str(text) == [kind |-> "str", text |-> text]
TextDict(text) == [kind |-> "dict", text |-> text]
TypeError == [kind |-> "TypeError", text |-> <<>>]

\* VectorizerMixin._get_text: x[self.on], which for a dict is the value of the
\* key and for a str x and a str key raises TypeError
get_text(self, x) ==
    IF self.on # NoOn
    THEN (IF x.kind = "dict" THEN Str(x.text) ELSE TypeError)
    ELSE x

\* CountVectorizer.transform_one(x): the Counter, or the exception raised (the
\* preprocessor takes a str)
count_transform_one(self, x) ==
    LET text == get_text(self, x)
    IN IF text.kind # "str"
       THEN [error |-> "TypeError", counts |-> EmptyDict]
       ELSE [error |-> "",
             counts |-> Counter(tokenizer(Call(
                 build_preprocessor(self.strip_accents, self.lowercase), text.text)))]

\* self.dfs[term] of a defaultdict(int): the value, 0 for a missing key
dfs_get(dfs, term) == IF term \in DOMAIN dfs THEN dfs[term] ELSE 0

\* The defaultdict after self.dfs[term] was read for each of the terms: a
\* missing key is inserted with the value 0.
dfs_read(dfs, terms) == [t \in DOMAIN dfs \cup terms |-> dfs_get(dfs, t)]

RECURSIVE SumCounts(_, _)
SumCounts(counts, keys) ==
    IF keys = {} THEN 0
    ELSE LET k == CHOOSE k \in keys : TRUE
         IN counts[k] + SumCounts(counts, keys \ {k})

\* TFIDFVectorizer.compute_tfidfs: the vectorizer after the call and the dict
\* returned.  The value of a term is tf * (log(idf_arg) + 1), divided by the
\* norm of the values when normalized; it is held as tf and idf_arg.
compute_tfidfs(self, term_counts) ==
    LET n_terms == SumCounts(term_counts, DOMAIN term_counts)
    IN [self |-> [self EXCEPT !.dfs = dfs_read(self.dfs, DOMAIN term_counts)],
        tfidfs |-> [term \in DOMAIN term_counts |->
                       [tf |-> Num(term_counts[term], n_terms),
                        idf_arg |-> Num(1 + self.n, 1 + dfs_get(self.dfs, term)),
                        normalized |-> self.normalize]]]

\* TFIDFVectorizer.fit_one(x): the vectorizer after the call, and the
\* exception raised ("" if none).  self.tfs.fit_one(text) is the fit_one a
\* CountVectorizer inherits: it returns the CountVectorizer, which has nothing
\* to learn, and transform_one is called on it.
tfidf_fit_one(self, x) ==
    LET text == get_text(self, x)
        term_counts == count_transform_one(self.tfs, text)
    IN IF text.kind = "TypeError" THEN [self |-> self, error |-> "TypeError"]
       ELSE IF term_counts.error # "" THEN [self |-> self, error |-> term_counts.error]
       ELSE [self |-> [self EXCEPT
                          !.dfs = [t \in DOMAIN self.dfs \cup DOMAIN term_counts.counts |->
                                      dfs_get(self.dfs, t)
                                      + (IF t \in DOMAIN term_counts.counts THEN 1 ELSE 0)],
                          !.n = self.n + 1],
             error |-> ""]

\* TFIDFVectorizer.transform_one(x): the vectorizer after the call, the dict
\* returned and the exception raised ("" if none)
tfidf_transform_one(self, x) ==
    LET text == get_text(self, x)
        term_counts == count_transform_one(self.tfs, text)
        computed == compute_tfidfs(self, term_counts.counts)
    IN IF text.kind = "TypeError"
       THEN [self |-> self, tfidfs |-> EmptyDict, error |-> "TypeError"]
       ELSE IF term_counts.error # ""
       THEN [self |-> self, tfidfs |-> EmptyDict, error |-> term_counts.error]
       ELSE [self |-> computed.self, tfidfs |-> computed.tfidfs, error |-> ""]

\* The parameters a TFIDFVectorizer is constructed with (preprocessor and
\* tokenizer left to their defaults).
VectorizerArgs ==
    [on : {NoOn, "text"}, strip_accents : BOOLEAN, lowercase : BOOLEAN,
     normalize : BOOLEAN]

\* TFIDFVectorizer.__init__
tfidf_init(args) ==
    [status |-> "ready",
     on |-> args.on, strip_accents |-> args.strip_accents,
     lowercase |-> args.lowercase, normalize |-> args.normalize,
     tfs |-> [on |-> args.on, strip_accents |-> args.strip_accents,
              lowercase |-> args.lowercase],
     dfs |-> EmptyDict,
     n |-> 0]

\* No vectorizer is constructed yet.
NoVectorizer ==
    [status |-> "new", on |-> NoOn, strip_accents |-> FALSE, lowercase |-> FALSE,
     normalize |-> FALSE,
     tfs |-> [on |-> NoOn, strip_accents |-> FALSE, lowercase |-> FALSE],
     dfs |-> EmptyDict, n |-> 0]

NoCall == [op |-> "none", x |-> Str(<<>>), error |-> "", tfidfs |-> EmptyDict]
NotComposed == [functions |-> <<>>, x |-> 0, result |-> 0]

\* The texts of the stream: "ab ab", "Ab e'e.", "a be" and "E'E ab".
Documents ==
    {<<"a", "b", " ", "a", "b">>, <<"A", "b", " ", "e'", "e", ".">>,
     <<"a", " ", "b", "e">>, <<"E'", "E", " ", "a", "b">>}

\* The Counters compute_tfidfs is called with directly: {'ab': 2},
\* {'ab': 1, 'ee': 1}, {'zz': 1} whose term is in no text of the stream, and
\* the empty Counter.
TermCounts ==
    {Counter(<<<<"a", "b">>, <<"a", "b">>>>), Counter(<<<<"a", "b">>, <<"e", "e">>>>),
     Counter(<<<<"z", "z">>>>), EmptyDict}

\* The term_counts a direct call of compute_tfidfs was given.
CounterArg(term_counts) == [kind |-> "Counter", text |-> <<>>, counts |-> term_counts]

\* The x a text is given as: the text itself to a vectorizer with on=None, the
\* dict {'text': text} to one with on='text'.
InputOf(self, text) == IF self.on = NoOn THEN Str(text) ELSE TextDict(text)

\* The lists of functions compose is given, and the arguments the composed
\* callable is called with.
RECURSIVE ListsOf(_, _)
ListsOf(S, len) ==
    IF len = 0 THEN {<<>>}
    ELSE ListsOf(S, len - 1)
         \cup {Append(l, e) : l \in {m \in ListsOf(S, len - 1) : Len(m) = len - 1}, e \in S}

FunctionLists == ListsOf(NumberFunctions, MaxFunctions)
Arguments == {-3, 0, 1, 10}

\* ------------------------------------------------------------------ actions

Init ==
    /\ status = "new"
    /\ error = ""
    /\ ctor_args = NoArgs
    /\ cfg = NoArgs
    /\ data_window = <<>>
    /\ registry = <<>>
    /\ n_learned = 0
    /\ twin_window = <<>>
    /\ last_op = "none"
    /\ last_x = NoX
    /\ last_y = 0
    /\ out = Returned(None)
    /\ inflight = NoFlight
    /\ tfidf = NoVectorizer
    /\ fit_docs = <<>>
    /\ tf_out = NoCall
    /\ composed = NotComposed

\* KNNRegressor(**args)
Construct(args) ==
    /\ status = "new"
    /\ ctor_args' = args
    /\ error' = init_error(args)
    /\ status' = IF init_error(args) = "" THEN "ready" ELSE "failed"
    /\ cfg' = IF init_error(args) = "" THEN args ELSE NoArgs
    /\ UNCHANGED <<data_window, registry, n_learned, twin_window, last_op, last_x,
                   last_y, out, inflight>>
    /\ UNCHANGED text_vars

\* learn_one(s.x, s.y)
Learn(s) ==
    /\ status = "ready"
    /\ n_learned < MaxLearns
    /\ data_window' = learn_one(data_window, cfg, registry, s.x, s.y)
    /\ twin_window' = learn_one(twin_window, cfg, registry, s.x, s.y)
    /\ registry' = register(registry, s.x)
    /\ n_learned' = n_learned + 1
    /\ last_op' = "learn"
    /\ last_x' = s.x
    /\ last_y' = s.y
    /\ out' = Returned(Self)
    /\ UNCHANGED <<status, error, ctor_args, cfg, inflight>>
    /\ UNCHANGED text_vars

\* a predict_one that, short of entries, lowers n_neighbors to the size of the
\* window for the calls to come instead of only returning None
Predict_clamping(x) ==
    /\ status = "ready"
    /\ out' = predict_one(data_window, cfg, registry, x)
    /\ registry' = predict_registry(data_window, cfg, registry, x)
    /\ cfg' = IF not_enough(data_window, cfg.n_neighbors) /\ data_window # <<>>
              THEN [cfg EXCEPT !.n_neighbors = size(data_window)] ELSE cfg
    /\ last_op' = "predict"
    /\ last_x' = x
    /\ last_y' = 0
    /\ UNCHANGED <<status, error, ctor_args, data_window, n_learned, twin_window,
                   inflight>>
    /\ UNCHANGED text_vars

\* predict_one(x)
Predict(x) ==
    /\ status = "ready"
    /\ out' = predict_one(data_window, cfg, registry, x)
    /\ registry' = predict_registry(data_window, cfg, registry, x)
    /\ last_op' = "predict"
    /\ last_x' = x
    /\ last_y' = 0
    /\ UNCHANGED <<status, error, ctor_args, cfg, data_window, n_learned, twin_window,
                   inflight>>
    /\ UNCHANGED text_vars

Next ==
    \/ \E args \in CtorArgs : Construct(args)
    \/ \E s \in Samples : Learn(s)
    \/ \E x \in Queries : Predict(x)

Spec == Init /\ [][Next]_vars

\* predict_one(x) in a second thread, up to the return of _get_neighbors: it
\* returns None at once when the entries are too few, and else holds the
\* neighbours it obtained.
PredictQuery(x) ==
    /\ status = "ready"
    /\ ~inflight.active
    /\ registry' = predict_registry(data_window, cfg, registry, x)
    /\ LET nb == get_neighbors(data_window, dict2numpy(registry, x),
                               cfg.n_neighbors, cfg.p, cfg.leaf_size)
       IN IF not_enough(data_window, cfg.n_neighbors) \/ nb.error # ""
          THEN /\ out' = predict_one(data_window, cfg, registry, x)
               /\ last_op' = "predict"
               /\ last_x' = x
               /\ last_y' = 0
               /\ UNCHANGED inflight
          ELSE /\ inflight' = [active |-> TRUE, x |-> x, dists |-> nb.dists,
                               idx |-> nb.idx, window |-> data_window]
               /\ UNCHANGED <<last_op, last_x, last_y, out>>
    /\ UNCHANGED <<status, error, ctor_args, cfg, data_window, n_learned, twin_window>>
    /\ UNCHANGED text_vars

\* The rest of that predict_one: it reads targets_buffer as the window is by
\* now, looks up the targets of its neighbours, aggregates and returns.
PredictRead ==
    /\ status = "ready"
    /\ inflight.active
    /\ out' = predict_read(targets_buffer(data_window), cfg, inflight)
    /\ last_op' = "predict"
    /\ last_x' = inflight.x
    /\ last_y' = 0
    /\ inflight' = [inflight EXCEPT !.active = FALSE]
    /\ UNCHANGED <<status, error, ctor_args, cfg, data_window, registry, n_learned,
                   twin_window>>
    /\ UNCHANGED text_vars

\* The constructor arguments tried with two threads: those of CtorArgs with
\* the smallest leaf_size and the Manhattan distance.
ThreadCtorArgs == {args \in CtorArgs : args.leaf_size <= 1 /\ args.p <= 1}

\* The engine with learn_one in one thread and predict_one in another: a
\* learn_one may run between the two halves of a predict_one.
NextThreads ==
    \/ \E args \in ThreadCtorArgs : Construct(args)
    \/ \E s \in Samples : Learn(s)
    \/ \E x \in Queries : PredictQuery(x)
    \/ PredictRead

SpecThreads == Init /\ [][NextThreads]_vars

\* The engine on a stream whose inputs carry different features.
NextWide ==
    \/ \E args \in WideCtorArgs : Construct(args)
    \/ \E s \in WideSamples : Learn(s)
    \/ \E x \in WideQueries : Predict(x)

SpecWide == Init /\ [][NextWide]_vars

knn_vars == <<status, error, ctor_args, cfg, data_window, registry, n_learned,
              twin_window, last_op, last_x, last_y, out, inflight>>

\* TFIDFVectorizer(**args)
TfidfConstruct(args) ==
    /\ tfidf.status = "new"
    /\ tfidf' = tfidf_init(args)
    /\ UNCHANGED <<fit_docs, tf_out, composed>>
    /\ UNCHANGED knn_vars

\* fit_one(x) with the text given the way the vectorizer is configured for
FitOne(text) ==
    /\ tfidf.status = "ready"
    /\ Len(fit_docs) < MaxFits
    /\ LET x == InputOf(tfidf, text)
           done == tfidf_fit_one(tfidf, x)
       IN /\ tfidf' = done.self
          /\ tf_out' = [op |-> "fit_one", x |-> x, error |-> done.error,
                        tfidfs |-> EmptyDict]
    /\ fit_docs' = Append(fit_docs, text)
    /\ UNCHANGED composed
    /\ UNCHANGED knn_vars

\* transform_one(x) with the text given the way the vectorizer is configured for
TransformOne(text) ==
    /\ tfidf.status = "ready"
    /\ LET x == InputOf(tfidf, text)
           done == tfidf_transform_one(tfidf, x)
       IN /\ tfidf' = done.self
          /\ tf_out' = [op |-> "transform_one", x |-> x, error |-> done.error,
                        tfidfs |-> done.tfidfs]
    /\ UNCHANGED <<fit_docs, composed>>
    /\ UNCHANGED knn_vars

\* compute_tfidfs(term_counts) called on the vectorizer directly
ComputeTfidfs(term_counts) ==
    /\ tfidf.status = "ready"
    /\ LET done == compute_tfidfs(tfidf, term_counts)
       IN /\ tfidf' = done.self
          /\ tf_out' = [op |-> "compute_tfidfs", x |-> CounterArg(term_counts),
                        error |-> "", tfidfs |-> done.tfidfs]
    /\ UNCHANGED <<fit_docs, composed>>
    /\ UNCHANGED knn_vars

NextTfidf ==
    \/ \E args \in VectorizerArgs : TfidfConstruct(args)
    \/ \E text \in Documents : FitOne(text)
    \/ \E text \in Documents : TransformOne(text)
    \/ \E term_counts \in TermCounts : ComputeTfidfs(term_counts)

SpecTfidf == Init /\ [][NextTfidf]_vars

\* compose(*functions)(x)
CallComposed(functions, x) ==
    /\ composed' = [functions |-> functions, x |-> x,
                    result |-> Call(compose([i \in 1 .. Len(functions) |->
                                                Function(functions[i])]), x)]
    /\ UNCHANGED <<tfidf, fit_docs, tf_out>>
    /\ UNCHANGED knn_vars

\* build_preprocessor()(text) of a vectorizer with the two flags
Preprocess(strip_accents, lowercase, text) ==
    /\ composed' = [functions |-> (IF strip_accents THEN <<"strip_accents_unicode">> ELSE <<>>)
                                   \o (IF lowercase THEN <<"str.lower">> ELSE <<>>),
                    x |-> text,
                    result |-> Call(build_preprocessor(strip_accents, lowercase), text)]
    /\ UNCHANGED <<tfidf, fit_docs, tf_out>>
    /\ UNCHANGED knn_vars

NextCompose ==
    \/ \E functions \in FunctionLists : \E x \in Arguments : CallComposed(functions, x)
    \/ \E strip_accents \in BOOLEAN : \E lowercase \in BOOLEAN : \E text \in Documents :
          Preprocess(strip_accents, lowercase, text)

SpecCompose == Init /\ [][NextCompose]_vars

\* ------------------------------------------------ reference definitions

Min2(a, b) == IF a < b THEN a ELSE b

Predicted == status = "ready" /\ last_op = "predict"
Answered == Predicted /\ ret # None

\* The distance from the last query to the window entry at position pos.
QueryDist(pos) ==
    Minkowski(data_window[pos].x, dict2numpy(registry, last_x), cfg.p)

\* The distances from the last query to the entries from position pos on.
RECURSIVE QueryDistsFrom(_)
QueryDistsFrom(pos) ==
    IF pos > Len(data_window) THEN <<>>
    ELSE <<QueryDist(pos)>> \o QueryDistsFrom(pos + 1)

\* The positions of the k entries nearest to the last query among those at
\* the positions rest, nearest first, as a full scan finds them: each time
\* the entry that no other is nearer than, nor as near and inserted earlier.
\* D holds the distances of the entries.
RECURSIVE ScanFrom(_, _, _)
ScanFrom(D, rest, k) ==
    IF k = 0 \/ rest = {} THEN <<>>
    ELSE LET first == CHOOSE i \in rest : \A j \in rest \ {i} :
                         \/ D[i] < D[j]
                         \/ D[i] = D[j] /\ data_window[i].seq < data_window[j].seq
         IN <<first>> \o ScanFrom(D, rest \ {first}, k - 1)

ScanNearest(k) == ScanFrom(QueryDistsFrom(1), 1 .. Len(data_window), k)

RECURSIVE SumInts(_)
SumInts(s) == IF s = <<>> THEN 0 ELSE Head(s) + SumInts(Tail(s))

\* The targets of the n_neighbors entries nearest to the last query.
NearestTargets ==
    LET nearest == ScanNearest(cfg.n_neighbors)
    IN [r \in 1 .. cfg.n_neighbors |-> data_window[nearest[r]].y]

\* The j-th smallest of the values of s.
KthSmallest(s, j) ==
    CHOOSE v \in {s[i] : i \in 1 .. Len(s)} :
        /\ Cardinality({i \in 1 .. Len(s) : s[i] < v}) < j
        /\ Cardinality({i \in 1 .. Len(s) : s[i] <= v}) >= j

\* The float r is the fraction a / b.
IsFraction(r, a, b) == r.kind = "num" /\ r.num * b = a * r.den

\* The entries of the window before a call that the window after it lacks.
Dropped(before, after) ==
    LET Gone(e) == \A i \in 1 .. Len(after) : after[i] # e
    IN SelectSeq(before, Gone)

\* The (vector, target) pairs of a window, oldest first.
Content(window) ==
    [i \in 1 .. Len(window) |-> [x |-> window[i].x, y |-> window[i].y]]

\* The samples ([2], 20), ([3], 30) and ([4], 40) as such pairs: the window
\* that is left after learning ([1], 10) and then these three with
\* max_window_size = 3.
P2 == [x |-> <<4>>, y |-> 20]
P3 == [x |-> <<6>>, y |-> 30]
P4 == [x |-> <<8>>, y |-> 40]

\* ------------------------------------------------------------------ claims

\* C1: on an engine built with max_window_size = C, after the n-th learn the
\* window size is min(n, C): never above C, and exactly C from the C-th
\* learn on.
C1_CapacityInvariant ==
    status = "ready" =>
        size(data_window) = Min2(n_learned, cfg.max_window_size)

\* A learn on a full window has happened.
C1_Witness ==
    /\ status = "ready"
    /\ last_op = "learn"
    /\ n_learned > cfg.max_window_size
    /\ size(data_window) = cfg.max_window_size

\* C2: after n learns the window holds exactly the last min(n, C) samples, in
\* insertion order (the entries numbered n - min(n, C) + 1 .. n); a learn
\* appends its sample, keeps the other entries in order and, on a full
\* window, removes the oldest entry and only it; and every neighbour a
\* predict aggregates is an entry of the window, never an evicted one.
C2_FifoEviction ==
    [][status' = "ready" =>
        LET m == Min2(n_learned', cfg'.max_window_size)
        IN /\ Len(data_window') = m
           /\ \A i \in 1 .. m : data_window'[i].seq = n_learned' - m + i
           /\ n_learned' = n_learned + 1 =>
                /\ data_window'[m] = [x |-> dict2numpy(registry', last_x'),
                                      y |-> last_y', seq |-> n_learned']
                /\ \A i \in 1 .. m - 1 :
                      data_window'[i] = data_window[Len(data_window) - (m - 1) + i]
                /\ Dropped(data_window, data_window') =
                      IF Len(data_window) = cfg.max_window_size
                      THEN <<data_window[1]>> ELSE <<>>
           /\ Answered' =>
                \A i \in 1 .. Len(neighbor_idx') :
                   /\ neighbor_idx'[i] \in 0 .. m - 1
                   /\ neighbor_vals'[i] = data_window'[neighbor_idx'[i] + 1].y
                   /\ data_window'[neighbor_idx'[i] + 1].seq
                         > n_learned' - cfg'.max_window_size]_vars

\* A predict was answered after two evictions, from a window the query is
\* not in.
C2_Witness ==
    /\ Answered
    /\ n_learned > cfg.max_window_size + 1
    /\ dists[1] > 0

\* C3: predict returns None, which is no number, exactly when the window holds
\* fewer than n_neighbors entries.
C3_InsufficientData ==
    Predicted =>
        /\ ret = None <=> size(data_window) < cfg.n_neighbors
        /\ ret # None => ret.kind \in {"num", "nan"}

\* A predict on a window of exactly n_neighbors entries returns a number.
C3_Witness ==
    /\ Predicted
    /\ size(data_window) = cfg.n_neighbors
    /\ ret.kind = "num"

\* C4: the neighbours predict obtains are the n_neighbors nearest entries of
\* the window under the Minkowski distance of order p, as a full scan finds
\* them: no entry left out is nearer than one returned, each distance is the
\* distance of the entry returned and each target the target of that entry;
\* and the index returns the same for every leaf_size (from 1, where every
\* partition is split, to the largest window, where none is).
C4_IndexConsistency ==
    Answered =>
        LET k == cfg.n_neighbors
            found == {neighbor_idx[i] + 1 : i \in 1 .. k}
            D == QueryDistsFrom(1)
        IN /\ Len(neighbor_idx) = k /\ Len(dists) = k /\ Len(neighbor_vals) = k
           /\ Cardinality(found) = k
           /\ found \subseteq 1 .. Len(data_window)
           /\ \A i \in found : \A j \in (1 .. Len(data_window)) \ found :
                 D[i] <= D[j]
           /\ \A i \in 1 .. k :
                 /\ dists[i] = D[neighbor_idx[i] + 1]
                 /\ neighbor_vals[i] = data_window[neighbor_idx[i] + 1].y
           /\ LET nearest == ScanFrom(D, 1 .. Len(data_window), k)
              IN dists = [i \in 1 .. k |-> D[nearest[i]]]
           /\ \A leaf \in 1 .. MaxWindow :
                 LET nb == get_neighbors(data_window, dict2numpy(registry, last_x),
                                         k, cfg.p, leaf)
                 IN nb.dists = dists /\ nb.idx = neighbor_idx

\* A predict on a window that the index splits (more entries than leaf_size)
\* and that holds more entries than are asked for.
C4_Witness ==
    /\ Answered
    /\ size(data_window) > cfg.leaf_size
    /\ size(data_window) > cfg.n_neighbors
    /\ cfg.n_neighbors > 1

\* C5: with the mean, predict returns the arithmetic mean of the targets of
\* the n_neighbors nearest entries of the current window; with n_neighbors = 2,
\* max_window_size = 3, p = 2, after learning ([1], 10), ([2], 20), ([3], 30),
\* ([4], 40), predict([3.5]) aggregates 30 and 40 and returns 35.
C5_Mean ==
    /\ (Answered /\ cfg.aggregation_method = MEAN) =>
           IsFraction(ret, SumInts(NearestTargets), cfg.n_neighbors)
    /\ (/\ Answered /\ cfg.aggregation_method = MEAN
        /\ cfg.n_neighbors = 2 /\ cfg.max_window_size = 3 /\ cfg.p = 2
        /\ n_learned = 4 /\ Content(data_window) = <<P2, P3, P4>>
        /\ last_x = Dict(7)) =>
           /\ neighbor_vals = <<30, 40>>
           /\ dists = <<1, 1>>
           /\ ret = Flt(35)

\* The scenario of C5 has run.
C5_Witness ==
    /\ Answered /\ cfg.aggregation_method = MEAN
    /\ cfg.n_neighbors = 2 /\ cfg.max_window_size = 3 /\ cfg.p = 2
    /\ n_learned = 4 /\ Content(data_window) = <<P2, P3, P4>>
    /\ last_x = Dict(7)
    /\ ret = Flt(35)

\* C6: with the median, predict returns the median of the n_neighbors targets
\* retrieved, for an even n_neighbors the average of the two middle values; on
\* the window ([2], 20), ([3], 30), ([4], 40) with n_neighbors = 3,
\* predict([3]) returns 30.
C6_Median ==
    /\ (Answered /\ cfg.aggregation_method = MEDIAN) =>
           LET k == cfg.n_neighbors
           IN IF k % 2 = 1
              THEN IsFraction(ret, KthSmallest(NearestTargets, (k + 1) \div 2), 1)
              ELSE IsFraction(ret, KthSmallest(NearestTargets, k \div 2)
                                   + KthSmallest(NearestTargets, k \div 2 + 1), 2)
    /\ (/\ Answered /\ cfg.aggregation_method = MEDIAN /\ cfg.n_neighbors = 3
        /\ Content(data_window) = <<P2, P3, P4>>
        /\ last_x = Dict(6)) =>
           ret = Flt(30)

\* The scenario of C6 has run.
C6_Witness ==
    /\ Answered /\ cfg.aggregation_method = MEDIAN /\ cfg.n_neighbors = 3
    /\ Content(data_window) = <<P2, P3, P4>>
    /\ last_x = Dict(6)
    /\ ret = Flt(30)

\* C7: with the weighted mean, for every n_neighbors >= 1 and neighbours
\* whose distances have a nonzero sum S, predict returns sum_i w_i * target_i
\* for the weights 1 - d_i / S renormalised to sum to 1.  (The weight of
\* neighbour i is (S - d_i) / W with W = sum_j (S - d_j), which must not be 0.)
C7_WeightedMean ==
    (Answered /\ cfg.aggregation_method = WEIGHTED_MEAN /\ SumInts(dists) # 0) =>
        LET k == cfg.n_neighbors
            S == SumInts(dists)
            W == SumInts([i \in 1 .. k |-> S - dists[i]])
        IN /\ W # 0
           /\ IsFraction(ret, SumInts([i \in 1 .. k |-> (S - dists[i]) * neighbor_vals[i]]), W)

\* C8: entries at the same distance from the query are ordered by increasing
\* insertion sequence number, and when a tie straddles the n_neighbors
\* cut-off the entries inserted earlier are the ones selected and aggregated.
C8_TieBreak ==
    Answered =>
        LET k == cfg.n_neighbors
            found == {neighbor_idx[i] + 1 : i \in 1 .. k}
            SeqOf(i) == data_window[neighbor_idx[i] + 1].seq
            D == QueryDistsFrom(1)
        IN /\ \A i, j \in 1 .. k : (i < j /\ dists[i] = dists[j]) => SeqOf(i) < SeqOf(j)
           /\ \A i \in found : \A j \in (1 .. Len(data_window)) \ found :
                D[i] = D[j] => data_window[i].seq < data_window[j].seq
           /\ neighbor_vals = NearestTargets

\* A tie straddles the cut-off: an entry left out is as near as one selected,
\* and has another target.
C8_Witness ==
    /\ Answered
    /\ \E i \in 1 .. cfg.n_neighbors :
         \E j \in 1 .. Len(data_window) :
            /\ j - 1 \notin {neighbor_idx[m] : m \in 1 .. cfg.n_neighbors}
            /\ QueryDist(j) = dists[i]
            /\ data_window[j].y # neighbor_vals[i]

\* The sample of the wide stream that carries the target y: the targets of
\* that stream are distinct.
WideSampleOf(y) == CHOOSE s \in WideSamples : s.y = y

\* The window of a second engine of configuration c that is constructed when
\* the process-wide registry is reg and is then given, oldest first, the learn
\* calls whose samples `entries` holds.  The calls of the learn sequence that
\* came before them have left its window as they have left the first one's.
RECURSIVE SecondEngine(_, _, _, _)
SecondEngine(entries, window, c, reg) ==
    IF entries = <<>> THEN window
    ELSE LET s == WideSampleOf(Head(entries).y)
         IN SecondEngine(Tail(entries), learn_one(window, c, reg, s.x, s.y), c,
                         register(reg, s.x))

\* C9: a predict call leaves what a predict(x) returns as it was, for every
\* query x, so that two predict(x) calls with no learn between them return
\* the same whatever predict calls come between them; and what a predict
\* returns is what a second engine of the same configuration returns for the
\* query once it has been fed the same learn sequence.
C9_Determinism ==
    [][(status = "ready" /\ last_op' = "predict") =>
          /\ \A x \in WideQueries :
                predict_one(data_window', cfg', registry', x).ret
                   = predict_one(data_window, cfg, registry, x).ret
          /\ ret' = predict_one(SecondEngine(data_window', <<>>, cfg', registry'),
                                cfg', registry', last_x').ret]_vars

\* C10: construction with an aggregation_method outside mean, median and
\* weighted_mean fails with a ValueError and produces no engine; construction
\* with one of the three stores the method unchanged.
C10_InvalidAggregation ==
    status # "new" =>
        /\ ctor_args.aggregation_method \notin AggregationMethods =>
              status = "failed" /\ error = "ValueError"
        /\ status = "ready" =>
              /\ ctor_args.aggregation_method \in AggregationMethods
              /\ cfg.aggregation_method = ctor_args.aggregation_method

\* The arguments pass the checks of construction (sizes positive, p >= 1).
ValidSizes(args) ==
    /\ args.n_neighbors > 0 /\ args.max_window_size > 0 /\ args.leaf_size > 0
    /\ args.p >= 1

\* C11: construction with p < 1, or with max_window_size, n_neighbors or
\* leaf_size not positive, fails in the constructor with a ValueError; an
\* engine that exists has sizes that are positive and p >= 1, exactly the
\* arguments it was given; a failed construction is followed by no learn and
\* no predict, and no learn or predict ends in an error.
C11_InvalidConfiguration ==
    /\ (status # "new" /\ ~ValidSizes(ctor_args)) =>
           status = "failed" /\ error = "ValueError"
    /\ status = "ready" => ValidSizes(cfg) /\ cfg = ctor_args /\ error = ""
    /\ status = "failed" =>
           /\ cfg = NoArgs /\ data_window = <<>> /\ n_learned = 0
           /\ last_op = "none"
    /\ last_op # "none" =>
           status = "ready" /\ ret.kind \in {"self", "none", "num", "nan"}

\* A construction with a valid aggregation method and only p invalid failed.
C11_Witness ==
    /\ status = "failed" /\ error = "ValueError"
    /\ ctor_args.p < 1
    /\ ctor_args.n_neighbors > 0 /\ ctor_args.max_window_size > 0
    /\ ctor_args.leaf_size > 0
    /\ ctor_args.aggregation_method \in AggregationMethods

\* C12: a predict, whether it returns None or a number, leaves the window
\* (entries, order, size) and the configuration as they were; a step that
\* changes the window is a learn, and no step changes the configuration of
\* an engine that exists.
C12_PredictReadOnly ==
    [][/\ last_op' = "predict" => data_window' = data_window /\ cfg' = cfg
       /\ data_window' # data_window =>
             last_op' = "learn" /\ n_learned' = n_learned + 1
       /\ status = "ready" => cfg' = cfg /\ status' = "ready"]_vars

\* A predict returned None on a full window (n_neighbors is above
\* max_window_size).
C12_Witness ==
    /\ Predicted /\ ret = None
    /\ size(data_window) > 0
    /\ size(data_window) = cfg.max_window_size

\* C14: with the weighted mean, a predict whose neighbours are all at
\* distance 0 returns nan (it raises nothing), and the window is still the
\* window of an engine that was given the learns only.
C14_DegenerateDistance ==
    (Answered /\ cfg.aggregation_method = WEIGHTED_MEAN /\ SumInts(dists) = 0) =>
        /\ ret = NaN
        /\ data_window = twin_window
        /\ size(data_window) = Min2(n_learned, cfg.max_window_size)

\* Two neighbours, both at distance 0 from the query.
C14_Witness ==
    /\ Answered /\ cfg.aggregation_method = WEIGHTED_MEAN
    /\ cfg.n_neighbors = 2
    /\ dists = <<0, 0>>
    /\ ret = NaN

\* C13: at a predict that projects its query, the query vector and every
\* vector of the window have as many coordinates as there are names
\* registered, whichever call registered them, and the query vector holds 0
\* for each name its input does not carry.
C13_Dimensionality ==
    (Predicted /\ ret # None) =>
        LET q == dict2numpy(registry, last_x)
        IN /\ Len(q) = Len(registry)
           /\ \A i \in 1 .. Len(data_window) : Len(data_window[i].x) = Len(registry)
           /\ \A i \in 1 .. Len(q) :
                 q[i] = IF registry[i] \in DOMAIN last_x THEN last_x[registry[i]] ELSE 0

\* C15: the neighbour indices of a predict and the targets it read for them
\* are of one state of the window: the targets are those of the entries
\* selected in the window the indices were obtained from, or the indices are
\* also the neighbours in the window the targets were read from.
C15_Atomicity ==
    (last_op = "predict" /\ ret # None /\ ~inflight.active /\ inflight # NoFlight) =>
        \/ neighbor_vals = lookup_targets(targets_buffer(inflight.window), neighbor_idx)
        \/ LET nb == get_neighbors(data_window, dict2numpy(registry, last_x),
                                   cfg.n_neighbors, cfg.p, cfg.leaf_size)
           IN nb.idx = neighbor_idx /\ nb.dists = dists

\* The terms of a text: the keys of the Counter a vectorizer with the flags of
\* self, given the text itself, counts.
TermsOf(self, text) ==
    DOMAIN count_transform_one(
        [on |-> NoOn, strip_accents |-> self.strip_accents,
         lowercase |-> self.lowercase], Str(text)).counts

AllTerms == UNION {TermsOf(tfidf, text) : text \in Documents}

\* The fit_one calls whose text holds the term.
FitsWith(term) == {i \in 1 .. Len(fit_docs) : term \in TermsOf(tfidf, fit_docs[i])}

\* C16: n is the number of fit_one calls made, and for every term dfs[term]
\* is the number of those calls whose document holds the term at least once,
\* which lies between 0 and n.
C16_DocumentFrequencies ==
    tfidf.status = "ready" =>
        /\ tfidf.n = Len(fit_docs)
        /\ \A term \in AllTerms \cup DOMAIN tfidf.dfs :
              /\ dfs_get(tfidf.dfs, term) = Cardinality(FitsWith(term))
              /\ 0 <= dfs_get(tfidf.dfs, term)
              /\ dfs_get(tfidf.dfs, term) <= tfidf.n

\* C17: a transform_one leaves n and dfs as they were, keys included; a step
\* that changes n or dfs of a constructed vectorizer is a fit_one.
C17_TransformReadOnly ==
    [][/\ tf_out'.op = "transform_one" =>
             tfidf'.n = tfidf.n /\ tfidf'.dfs = tfidf.dfs
       /\ (tfidf.status = "ready" /\ (tfidf'.n # tfidf.n \/ tfidf'.dfs # tfidf.dfs)) =>
             tf_out'.op = "fit_one"]_vars

\* C18: on a vectorizer with on set, fit_one and transform_one of a dict
\* raise nothing; transform_one returns what a vectorizer with on=None in the
\* same state returns for the text x[on], and fit_one has counted the
\* document and each of the terms of x[on].
C18_OnFeature ==
    (tf_out.op # "none" /\ tfidf.on # NoOn) =>
        LET text == tf_out.x.text
            plain == [tfidf EXCEPT !.on = NoOn, !.tfs.on = NoOn]
        IN /\ tf_out.error = ""
           /\ tf_out.op = "transform_one" =>
                 tf_out.tfidfs = tfidf_transform_one(plain, Str(text)).tfidfs
           /\ tf_out.op = "fit_one" =>
                 /\ tfidf.n >= 1
                 /\ \A term \in TermsOf(tfidf, text) : dfs_get(tfidf.dfs, term) >= 1

\* The functions applied to x one after the other, the first of the list first.
RECURSIVE LeftToRight(_, _)
LeftToRight(functions, x) ==
    IF functions = <<>> THEN x
    ELSE LeftToRight(Tail(functions), ApplyFunction(Head(functions), x))

\* C19: the callable compose returns applies the functions from left to
\* right, compose()(x) = x, compose(f, g, h)(10) = -22 for f = x + 1, g = x * 2
\* and h = -x, and the default preprocessor strips the accents and then
\* lowers the case.
C19_Compose ==
    /\ composed.result = LeftToRight(composed.functions, composed.x)
    /\ composed.functions = <<>> => composed.result = composed.x
    /\ (composed.functions = <<"x + 1", "x * 2", "-x">> /\ composed.x = 10) =>
           composed.result = -22
    /\ composed.functions = <<"strip_accents_unicode", "str.lower">> =>
           composed.result = str_lower(strip_accents_unicode(composed.x))

\* The example of the docstring has run.
C19_Witness ==
    /\ composed.functions = <<"x + 1", "x * 2", "-x">>
    /\ composed.x = 10
    /\ composed.result = -22

=============================================================================
